---- MODULE Spec2Model ----
(***************************************************************************)
(* Onboarding form: schema validation, remote corporation-number           *)
(* verification (useCorporationValidation), submission (useFormSubmission) *)
(* and their orchestration in the OnboardingForm component.                *)
(*                                                                         *)
(* Strings that the code inspects character by character are sequences of  *)
(* one-character strings; messages are plain strings.  JavaScript's        *)
(* undefined is the string Undefined, null and "no value" are tagged       *)
(* records.                                                                *)
(***************************************************************************)
EXTENDS Integers, Sequences, FiniteSets, TLC

\* ------------------------------------------------------------------ bounds
MaxVerifyCalls == 2
MaxSubmits == 2

\* ------------------------------------------------------- JavaScript values
Undefined == "<undefined>"

Falsy(m) == m = Undefined \/ m = ""

\* a || b on strings
OrElse(m, fallback) == IF Falsy(m) THEN fallback ELSE m

Digits == {"0", "1", "2", "3", "4", "5", "6", "7", "8", "9"}

RECURSIVE Filter(_, _)
\* the characters of s that are in keep, in order: s.replace(/[^keep]/g, '')
Filter(s, keep) ==
  IF s = <<>> THEN <<>>
  ELSE IF Head(s) \in keep THEN <<Head(s)>> \o Filter(Tail(s), keep)
       ELSE Filter(Tail(s), keep)

StartsWith(s, p) == Len(s) >= Len(p) /\ SubSeq(s, 1, Len(p)) = p

\* s.substring(0, n)
Substring0(s, n) == SubSeq(s, 1, IF Len(s) < n THEN Len(s) ELSE n)

AllDigits(s) == \A i \in 1..Len(s) : s[i] \in Digits

\* ------------------------------------------------------ utils/validation
NameMaxLen == 50
CorporationNumberLen == 9
PhoneMaxLen == 12

MsgInvalidCorporationNumber == "Invalid corporation number"
MsgFailedToValidate == "Failed to validate corporation number"
MsgUnexpected == "An unexpected error occurred"
MsgFailedToSubmit == "Failed to submit form"

\* the pattern with any digit allowed as the first of the area code
canadianPhoneRegexAnyAreaCode(s) ==
  /\ Len(s) = 12
  /\ s[1] = "+"
  /\ s[2] = "1"
  /\ \A i \in 3..5 : s[i] \in Digits
  /\ s[6] \in Digits \ {"0", "1"}
  /\ \A i \in 7..12 : s[i] \in Digits

\* /^\+1[2-9]\d{2}[2-9]\d{2}\d{4}$/
canadianPhoneRegex(s) ==
  /\ Len(s) = 12
  /\ s[1] = "+"
  /\ s[2] = "1"
  /\ s[3] \in Digits \ {"0", "1"}
  /\ s[4] \in Digits /\ s[5] \in Digits
  /\ s[6] \in Digits \ {"0", "1"}
  /\ \A i \in 7..12 : s[i] \in Digits

validatePhoneFormat(phone) == canadianPhoneRegex(phone)

\* z.string().min(1).max(50).trim(): the length checks run on the value as
\* entered, the trim comes last and only changes the parsed output.
firstNameRule(s) == Len(s) >= 1 /\ Len(s) <= NameMaxLen

lastNameRule(s) == Len(s) >= 1 /\ Len(s) <= NameMaxLen

phoneRule(s) == Len(s) >= 1 /\ canadianPhoneRegex(s)

\* the rule without its digits-only pattern
corporationNumberRuleAnyNine(s) ==
  /\ Len(s) >= 1
  /\ Len(s) = CorporationNumberLen

corporationNumberRule(s) ==
  /\ Len(s) >= 1
  /\ Len(s) = CorporationNumberLen
  /\ AllDigits(s)

onboardingFormSchema(data) ==
  /\ firstNameRule(data.firstName)
  /\ lastNameRule(data.lastName)
  /\ phoneRule(data.phone)
  /\ corporationNumberRule(data.corporationNumber)

\* the message of the first check of the field's rule that fails on s, as
\* the resolver reports it in errors.<field>.message; Undefined when none
firstNameIssue(s) ==
  IF Len(s) < 1 THEN "First name is required"
  ELSE IF Len(s) > NameMaxLen THEN "First name must be 50 characters or less"
  ELSE Undefined

lastNameIssue(s) ==
  IF Len(s) < 1 THEN "Last name is required"
  ELSE IF Len(s) > NameMaxLen THEN "Last name must be 50 characters or less"
  ELSE Undefined

phoneIssue(s) ==
  IF Len(s) < 1 THEN "Phone number is required"
  ELSE IF ~canadianPhoneRegex(s)
       THEN "Phone number must be a valid Canadian number starting with +1 followed by 10 digits"
  ELSE Undefined

corporationNumberIssue(s) ==
  IF Len(s) < 1 THEN "Corporation number is required"
  ELSE IF Len(s) # CorporationNumberLen
       THEN "Corporation number must be exactly 9 characters"
  ELSE IF ~AllDigits(s) THEN "Corporation number must contain only digits"
  ELSE Undefined

\* zodResolver(onboardingFormSchema) on the form values: errors per field
SchemaErrors(values) ==
  [firstName |-> firstNameIssue(values.firstName),
   lastName |-> lastNameIssue(values.lastName),
   phone |-> phoneIssue(values.phone),
   corporationNumber |-> corporationNumberIssue(values.corporationNumber)]

\* cleanPhoneInput without the removal of separators and other characters
cleanPhoneInputKeepsAll(input) ==
  LET cleaned == input
  IN IF ~StartsWith(cleaned, <<"+", "1">>)
     THEN IF StartsWith(cleaned, <<"1">>)
          THEN <<"+">> \o cleaned
          ELSE <<"+", "1">> \o
               (IF StartsWith(cleaned, <<"+">>) THEN Tail(cleaned) ELSE cleaned)
     ELSE Substring0(cleaned, PhoneMaxLen)

cleanPhoneInput(input) ==
  LET cleaned == Filter(input, Digits \cup {"+"})
  IN IF ~StartsWith(cleaned, <<"+", "1">>)
     THEN IF StartsWith(cleaned, <<"1">>)
          THEN <<"+">> \o cleaned
          ELSE <<"+", "1">> \o
               (IF StartsWith(cleaned, <<"+">>) THEN Tail(cleaned) ELSE cleaned)
     ELSE Substring0(cleaned, PhoneMaxLen)

RECURSIVE TrimLeft(_)
TrimLeft(s) == IF s # <<>> /\ Head(s) = " " THEN TrimLeft(Tail(s)) ELSE s

RECURSIVE TrimRight(_)
TrimRight(s) ==
  IF s # <<>> /\ s[Len(s)] = " " THEN TrimRight(SubSeq(s, 1, Len(s) - 1)) ELSE s

\* String.prototype.trim, for the space character
Trim(s) == TrimRight(TrimLeft(s))

\* the data handleSubmit passes to onSubmit: the schema's parsed output
parsedFormData(values) ==
  [firstName |-> Trim(values.firstName),
   lastName |-> Trim(values.lastName),
   phone |-> Trim(values.phone),
   corporationNumber |-> values.corporationNumber]

\* ------------------------------------------------------------ services/api
HttpBadRequest == 400

\* what the transport can answer to GET /corporation-number/{n}: a 2xx body
\* {corporationNumber, valid, message?}, or an AxiosError with its own
\* message, possibly a response status, and the authority's body message
VerifyResponses ==
  {[ok |-> TRUE, valid |-> TRUE, message |-> Undefined],
   [ok |-> TRUE, valid |-> FALSE, message |-> Undefined],
   [ok |-> FALSE, hasResponse |-> TRUE, status |-> HttpBadRequest,
    message |-> "Request failed with status code 400",
    bodyMessage |-> "Invalid corporation number"]}

\* what the transport can answer to POST /profile-details
SubmitResponses ==
  {[ok |-> TRUE],
   [ok |-> FALSE, hasResponse |-> TRUE, status |-> HttpBadRequest,
    message |-> "Request failed with status code 400",
    bodyMessage |-> "Invalid phone number"]}

\* the response interceptor's rejection handler: the AxiosError is replaced
\* by an object literal {message, status}, which is no instance of Error
responseInterceptor(error) ==
  [isError |-> FALSE,
   message |-> OrElse(error.message, MsgUnexpected),
   statusDefined |-> error.hasResponse,
   status |-> error.status]

\* ApiService.validateCorporationNumber on transport answer http:
\* [threw |-> FALSE, value |-> ...] or [threw |-> TRUE, error |-> ...]
ApiValidateCorporationNumber(corporationNumber, http) ==
  IF http.ok
  THEN [threw |-> FALSE,
        value |-> [corporationNumber |-> corporationNumber,
                   valid |-> http.valid, message |-> http.message]]
  ELSE LET error == responseInterceptor(http)
       IN IF /\ error.isError
             /\ error.statusDefined
             /\ error.status = HttpBadRequest
          THEN [threw |-> FALSE,
                value |-> [corporationNumber |-> corporationNumber,
                           valid |-> FALSE, message |-> error.message]]
          ELSE [threw |-> TRUE, error |-> error]

\* ApiService.submitProfileDetails on transport answer http
ApiSubmitProfileDetails(http) ==
  IF http.ok THEN [threw |-> FALSE]
  ELSE [threw |-> TRUE, error |-> responseInterceptor(http)]

\* ------------------------------------------- hooks/useCorporationValidation
Null == [null |-> TRUE]
\* null in a state that otherwise holds a message string
NullMessage == "<null>"
Void == [void |-> TRUE]
None == [none |-> TRUE]

Truthy(v) == v # Null /\ v # Void

\* HookVerdict with the catch block's fallback message left out
HookVerdictNoFallback(corporationNumber, api) ==
  IF ~api.threw
  THEN api.value
  ELSE [corporationNumber |-> corporationNumber,
        valid |-> FALSE,
        message |-> api.error.message]

\* the verdict validateCorporationNumber stores and returns once the API call
\* has settled with outcome api (try / catch of the hook)
HookVerdict(corporationNumber, api) ==
  IF ~api.threw
  THEN api.value
  ELSE [corporationNumber |-> corporationNumber,
        valid |-> FALSE,
        message |-> OrElse(api.error.message, MsgFailedToValidate)]

\* ------------------------------------------------------------------ inputs
John == <<"J", "o", "h", "n">>
Doe == <<"D", "o", "e">>
NumA == <<"1", "2", "3", "4", "5", "6", "7", "8", "9">>
NumB == <<"9", "8", "7", "6", "5", "4", "3", "2", "1">>

FirstNameInputs == {John}
LastNameInputs == {Doe}
RawPhoneInputs == {<<"3", "0", "6", "-", "2", "7", "7", "6", "1", "0", "3">>}
RawCorporationNumberInputs ==
  {<<>>, NumA,
   <<"9", "8", "7", "-", "6", "5", "4", "-", "3", "2", "1">>,
   NumA \o <<"0">>}

\* ------------------------------------------------------------------- state
VARIABLES
  formValues,        \* react-hook-form field values
  errors,            \* react-hook-form formState.errors: message per field
  formErrors,        \* useState formErrors: {corporationNumber?, submit?}
  isValidating,      \* useCorporationValidation
  validationResult,  \* useCorporationValidation: Null or a verdict
  isSubmitting,      \* useFormSubmission
  submitError,       \* useFormSubmission: NullMessage or a message
  isSuccess,         \* useFormSubmission
  calls,             \* API calls of validateCorporationNumber in flight
  started,           \* number of such calls started so far
  latest,            \* the latest-started of them: overlap and result
  lastCall,          \* the validateCorporationNumber call that finished last
  submits,           \* onSubmit invocations that have not finished
  submitted,         \* number of onSubmit invocations so far
  finished           \* the onSubmit invocation that finished last

vars == <<formValues, errors, formErrors, isValidating, validationResult, isSubmitting,
          submitError, isSuccess, calls, started, latest, lastCall, submits,
          submitted, finished>>

formVars == <<formValues, errors, formErrors>>
validationVars == <<isValidating, validationResult, calls, started, latest, lastCall>>
submissionVars == <<isSubmitting, submitError, isSuccess>>
submitVars == <<submits, submitted, finished>>

NoFormErrors == [corporationNumber |-> Undefined, submit |-> Undefined]

NoSchemaErrors ==
  [firstName |-> Undefined, lastName |-> Undefined, phone |-> Undefined,
   corporationNumber |-> Undefined]

EmptyForm ==
  [firstName |-> <<>>, lastName |-> <<>>, phone |-> <<>>,
   corporationNumber |-> <<>>]

Init ==
  /\ formValues = EmptyForm
  /\ errors = NoSchemaErrors
  /\ formErrors = NoFormErrors
  /\ isValidating = FALSE
  /\ validationResult = Null
  /\ isSubmitting = FALSE
  /\ submitError = NullMessage
  /\ isSuccess = FALSE
  /\ calls = {}
  /\ started = 0
  /\ latest = None
  /\ lastCall = None
  /\ submits = {}
  /\ submitted = 0
  /\ finished = None

\* the form is rendered (the success card replaces it while isSuccess)
FormRendered == ~isSuccess

isValid == onboardingFormSchema(formValues)

SubmitButtonEnabled == isValid /\ ~isValidating

\* ------------------------------------------- hooks/useCorporationValidation
\* ReachesApi with the length test left out
ReachesApiNoLength(corporationNumber) == corporationNumber # <<>>

\* the guard of validateCorporationNumber: false on the early return
\* (!corporationNumber || corporationNumber.length !== 9)
ReachesApi(corporationNumber) ==
  ~(corporationNumber = <<>> \/ Len(corporationNumber) # 9)

\* validateCorporationNumber(corporationNumber) up to its await, called by
\* owner (0: a blur or a direct call of the hook, s > 0: onSubmit number s)
StartValidation(corporationNumber, owner) ==
  IF ReachesApi(corporationNumber)
  THEN /\ started < MaxVerifyCalls
       /\ started' = started + 1
       /\ calls' = calls \cup {[id |-> started + 1,
                                corporationNumber |-> corporationNumber,
                                owner |-> owner]}
       /\ latest' = [overlapped |-> calls # {}, result |-> None]
       /\ isValidating' = TRUE
       /\ UNCHANGED <<validationResult, lastCall>>
  ELSE /\ validationResult' = Null
       /\ lastCall' = [corporationNumber |-> corporationNumber,
                       reachedApi |-> FALSE, returned |-> Void]
       /\ UNCHANGED <<isValidating, calls, started, latest>>

\* the rest of validateCorporationNumber for call c once the API call has
\* settled with outcome api (transport answer http): try/catch/finally
FinishValidation(c, api, http) ==
  LET result == HookVerdict(c.corporationNumber, api)
  IN /\ validationResult' = result
     /\ isValidating' = FALSE
     /\ calls' = calls \ {c}
     /\ latest' = IF c.id = started THEN [latest EXCEPT !.result = result]
                  ELSE latest
     /\ lastCall' = [corporationNumber |-> c.corporationNumber,
                     reachedApi |-> TRUE, http |-> http, api |-> api,
                     returned |-> result]
     /\ UNCHANGED started

clearValidation ==
  /\ validationResult' = Null
  /\ UNCHANGED <<isValidating, calls, started, latest, lastCall>>

\* ------------------------------------------------ components/OnboardingForm
\* NeedsVerification with the staleness test left out
NeedsVerificationNoStaleness(data, held) ==
  data.corporationNumber # <<>> /\ held = Null

\* onSubmit, first condition: the submitted number is verified afresh
NeedsVerification(data, held) ==
  /\ data.corporationNumber # <<>>
  /\ (held = Null \/ held.corporationNumber # data.corporationNumber)

\* FreshVerdictBlocks with the validity test left out
FreshVerdictNeverBlocks(corpValidation) == FALSE

\* onSubmit, if (corpValidation && !corpValidation.valid)
FreshVerdictBlocks(corpValidation) ==
  Truthy(corpValidation) /\ ~corpValidation.valid

\* onSubmit, if (validationResult && !validationResult.valid), on the
\* validationResult the callback closed over when it was invoked
HeldRecordBlocks(held) == held # Null /\ ~held.valid

\* the message onSubmit records for a blocking verdict
CorporationNumberMessage(verdict) ==
  OrElse(verdict.message, MsgInvalidCorporationNumber)

\* the message rendered under the corporation-number field, with the
\* ad hoc error of submit taking precedence over everything else
corporationNumberErrorAdHocFirst ==
  LET held == IF validationResult # Null /\ ~validationResult.valid
              THEN validationResult.message
              ELSE Undefined
  IN OrElse(formErrors.corporationNumber,
            OrElse(errors.corporationNumber, held))

\* the message rendered under the corporation-number field: a || b || c
corporationNumberError ==
  LET held == IF validationResult # Null /\ ~validationResult.valid
              THEN validationResult.message
              ELSE Undefined
  IN OrElse(errors.corporationNumber,
            OrElse(held, formErrors.corporationNumber))

\* register('firstName').onChange
ChangeFirstName(v) ==
  /\ FormRendered
  /\ formValues' = [formValues EXCEPT !.firstName = v]
  /\ UNCHANGED <<errors, formErrors, validationVars, submissionVars, submitVars>>

\* register('lastName').onChange
ChangeLastName(v) ==
  /\ FormRendered
  /\ formValues' = [formValues EXCEPT !.lastName = v]
  /\ UNCHANGED <<errors, formErrors, validationVars, submissionVars, submitVars>>

handlePhoneChange(raw) ==
  /\ FormRendered
  /\ LET cleaned == cleanPhoneInput(raw)
     IN /\ formValues' = [formValues EXCEPT !.phone = cleaned]
        /\ errors' = [errors EXCEPT !.phone = phoneIssue(cleaned)]
  /\ UNCHANGED <<formErrors, validationVars, submissionVars, submitVars>>

handleCorporationNumberChange(raw) ==
  /\ FormRendered
  /\ LET value == Filter(raw, Digits)
     IN IF Len(value) <= 9
        THEN /\ formValues' = [formValues EXCEPT !.corporationNumber = value]
             /\ errors' = [errors EXCEPT !.corporationNumber =
                                           corporationNumberIssue(value)]
        ELSE UNCHANGED <<formValues, errors>>
  /\ UNCHANGED <<formErrors, validationVars, submissionVars, submitVars>>

handleCorporationNumberBlur ==
  /\ FormRendered
  /\ LET currentValue == formValues.corporationNumber
     IN IF currentValue # <<>> /\ Len(currentValue) = 9
        THEN StartValidation(currentValue, 0)
        ELSE UNCHANGED validationVars
  /\ UNCHANGED <<formVars, submissionVars, submitVars>>

\* a new onSubmit invocation: the data, the validationResult it closed over,
\* and what it has done so far (the API verification calls it made, what
\* validateCorporationNumber returned to it, the error it recorded on the
\* corporation number, the data it passed to submitForm)
NewSubmit(id, data, held) ==
  [id |-> id, data |-> data, held |-> held, pc |-> "start", verifyCalls |-> 0,
   verdict |-> None, post |-> None, recordedError |-> Undefined]

\* onSubmit after its first if-condition (lines 56-67), corpValidation being
\* what validateCorporationNumber returned, or None when it was not called:
\* the invocation afterwards
OnSubmitAfter(sub, corpValidation) ==
  IF corpValidation # None /\ FreshVerdictBlocks(corpValidation)
  THEN [sub EXCEPT !.pc = "done", !.verdict = corpValidation,
                   !.recordedError = CorporationNumberMessage(corpValidation)]
  ELSE IF HeldRecordBlocks(sub.held)
       THEN [sub EXCEPT !.pc = "done", !.verdict = corpValidation,
                        !.recordedError = CorporationNumberMessage(sub.held)]
       ELSE [sub EXCEPT !.pc = "submitting", !.verdict = corpValidation,
                        !.post = sub.data]

\* the state changes of lines 56-67 for invocation sub becoming next: the
\* fail-fast error, or submitForm up to its await; reset tells whether
\* setFormErrors({}) and resetSubmission() ran earlier in the same step
ApplyOnSubmit(sub, next, reset) ==
  IF next.pc = "done"
  THEN /\ formErrors' = [corporationNumber |-> next.recordedError,
                         submit |-> Undefined]
       /\ submitError' = IF reset THEN NullMessage ELSE submitError
       /\ isSuccess' = IF reset THEN FALSE ELSE isSuccess
       /\ submits' = submits \ {sub}
       /\ finished' = [next EXCEPT !.id = -1]
       /\ UNCHANGED isSubmitting
  ELSE /\ formErrors' = IF reset THEN NoFormErrors ELSE formErrors
       /\ isSubmitting' = TRUE
       /\ submitError' = NullMessage
       /\ isSuccess' = FALSE
       /\ submits' = (submits \ {sub}) \cup {next}
       /\ UNCHANGED finished

\* handleSubmit(onSubmit): the resolver re-checks the schema, then onSubmit
\* runs up to its first await
onSubmit ==
  /\ FormRendered
  /\ SubmitButtonEnabled
  /\ onboardingFormSchema(formValues)
  /\ submitted < MaxSubmits
  /\ LET data == parsedFormData(formValues)
         sub == NewSubmit(submitted + 1, data, validationResult)
     IN /\ submitted' = submitted + 1
        /\ errors' = SchemaErrors(formValues)
        /\ UNCHANGED formValues
        /\ IF NeedsVerification(data, validationResult)
           THEN /\ StartValidation(data.corporationNumber, sub.id)
                /\ IF ReachesApi(data.corporationNumber)
                   THEN /\ formErrors' = NoFormErrors
                        /\ submitError' = NullMessage
                        /\ isSuccess' = FALSE
                        /\ submits' = submits \cup
                             {[sub EXCEPT !.pc = "verifying", !.verifyCalls = 1]}
                        /\ UNCHANGED <<isSubmitting, finished>>
                   ELSE ApplyOnSubmit(sub, OnSubmitAfter(sub, Void), TRUE)
           ELSE /\ UNCHANGED validationVars
                /\ ApplyOnSubmit(sub, OnSubmitAfter(sub, None), TRUE)

\* the API call c of validateCorporationNumber settles with outcome api
\* (transport answer http): the hook stores and returns the verdict, and the
\* onSubmit invocation that awaited it, if any, resumes
SettleCall(c, api, http) ==
  /\ c \in calls
  /\ FinishValidation(c, api, http)
  /\ UNCHANGED <<formValues, errors, submitted>>
  /\ IF c.owner = 0
     THEN UNCHANGED <<formErrors, submissionVars, submits, finished>>
     ELSE \E sub \in submits :
            /\ sub.id = c.owner
            /\ ApplyOnSubmit(sub,
                 OnSubmitAfter(sub, HookVerdict(c.corporationNumber, api)),
                 FALSE)

\* GET /corporation-number/{n} answers call c
VerifyResponse(c, http) ==
  SettleCall(c, ApiValidateCorporationNumber(c.corporationNumber, http), http)

\* ------------------------------------------------- hooks/useFormSubmission
\* what submitForm returns once submitProfileDetails has settled
SubmitFormResult(api) ==
  IF ~api.threw
  THEN [success |-> TRUE, error |-> Undefined]
  ELSE [success |-> FALSE, error |-> OrElse(api.error.message, MsgFailedToSubmit)]

\* POST /profile-details answers the submitForm call of invocation sub:
\* submitForm finishes and onSubmit resumes after its await
SubmitResponse(sub, http) ==
  /\ sub \in submits
  /\ sub.pc = "submitting"
  /\ LET result == SubmitFormResult(ApiSubmitProfileDetails(http))
     IN /\ IF result.success
           THEN /\ isSuccess' = TRUE
                /\ UNCHANGED submitError
           ELSE /\ submitError' = result.error
                /\ UNCHANGED isSuccess
        /\ isSubmitting' = FALSE
        /\ formErrors' = IF ~result.success
                         THEN [corporationNumber |-> Undefined,
                               submit |-> OrElse(result.error, MsgFailedToSubmit)]
                         ELSE formErrors
        /\ submits' = submits \ {sub}
        /\ finished' = [sub EXCEPT !.pc = "done", !.id = -1]
  /\ UNCHANGED <<formValues, errors, validationVars, submitted>>

\* the success card's button: window.location.reload()
Reload ==
  /\ isSuccess
  /\ formValues' = EmptyForm
  /\ errors' = NoSchemaErrors
  /\ formErrors' = NoFormErrors
  /\ isValidating' = FALSE
  /\ validationResult' = Null
  /\ isSubmitting' = FALSE
  /\ submitError' = NullMessage
  /\ isSuccess' = FALSE
  /\ calls' = {}
  /\ started' = 0
  /\ latest' = None
  /\ lastCall' = None
  /\ submits' = {}
  /\ submitted' = 0
  /\ finished' = None

Next ==
  \/ \E v \in FirstNameInputs : ChangeFirstName(v)
  \/ \E v \in LastNameInputs : ChangeLastName(v)
  \/ \E raw \in RawPhoneInputs : handlePhoneChange(raw)
  \/ \E raw \in RawCorporationNumberInputs : handleCorporationNumberChange(raw)
  \/ handleCorporationNumberBlur
  \/ onSubmit
  \/ \E c \in calls : \E http \in VerifyResponses : VerifyResponse(c, http)
  \/ \E sub \in submits : \E http \in SubmitResponses : SubmitResponse(sub, http)
  \/ Reload

Spec == Init /\ [][Next]_vars

TypeOK ==
  /\ isValidating \in BOOLEAN
  /\ isSubmitting \in BOOLEAN
  /\ isSuccess \in BOOLEAN
  /\ started <= MaxVerifyCalls
  /\ submitted <= MaxSubmits

\* ------------------------------------------------ the fields on their own
\* raw text handed to cleanPhoneInput: degenerate text, national numbers in
\* their usual spellings, short and overlong digit strings
TypedPhoneInputs ==
  {<<>>,
   <<"a", "b", "c">>,
   <<"(", ")", "-", " ">>,
   <<"+">>,
   <<"+", "+">>,
   <<"1">>,
   <<"+", "1">>,
   <<"1", "+">>,
   <<"2">>,
   <<"+", "2">>,
   <<"1", "1">>,
   <<"3", "0", "6", "2", "7", "7", "6", "1", "0", "3">>,
   <<"1", "3", "0", "6", "2", "7", "7", "6", "1", "0", "3">>,
   <<"+", "1", "3", "0", "6", "2", "7", "7", "6", "1", "0", "3">>,
   <<"3", "0", "6", "-", "2", "7", "7", "-", "6", "1", "0", "3">>,
   <<"1", " ", "3", "0", "6", " ", "2", "7", "7", " ", "6", "1", "0", "3">>,
   <<"+", "1", " ", "3", "0", "6", "-", "2", "7", "7", "-", "6", "1", "0", "3">>,
   <<"1", "-", "3", "0", "6", "-", "2", "7", "7", "-", "6", "1", "0", "3">>,
   <<"9", "9", "9", "9", "9", "9", "9", "9", "9", "9">>,
   <<"+", "1", "-", "9", "9", "9", "-", "9", "9", "9", "-", "9", "9", "9", "9">>,
   <<"2", "0", "0", "2", "0", "0", "0", "0", "0", "0">>,
   <<"1", " ", "2", "0", "0", " ", "2", "0", "0", " ", "0", "0", "0", "0">>,
   <<"+", "1", "3", "0", "6", "2", "7", "7", "6", "1", "0">>,
   <<"+", "3", "0", "6", "2", "7", "7", "6", "1", "0", "3">>,
   <<"1", "2", "3", "4", "5", "6", "7", "8", "9", "0", "1", "2">>,
   <<"2", "3", "4", "5", "6", "7", "8", "9", "0", "1", "2", "3">>,
   <<"+", "1", "3", "0", "6", "2", "7", "7", "6", "1", "0", "3", "9">>}

\* the four change handlers alone, on a form that is never submitted
FieldNext ==
  \/ \E v \in FirstNameInputs : ChangeFirstName(v)
  \/ \E v \in LastNameInputs : ChangeLastName(v)
  \/ \E raw \in TypedPhoneInputs : handlePhoneChange(raw)
  \/ \E raw \in RawCorporationNumberInputs : handleCorporationNumberChange(raw)

FieldSpec == Init /\ [][FieldNext]_vars

\* ------------------------------------------------- the schema on its own
FormFields == {"firstName", "lastName", "phone", "corporationNumber"}

\* trigger(name): the resolver runs on the current values and the field's
\* entry of formState.errors is replaced by its outcome
trigger(name) ==
  /\ FormRendered
  /\ errors' = [errors EXCEPT ![name] = SchemaErrors(formValues)[name]]
  /\ UNCHANGED <<formValues, formErrors, validationVars, submissionVars,
                 submitVars>>

\* name values handed to the schema: empty, plain, blank, padded, and of
\* 50 and 51 characters
NameTexts ==
  {<<>>, John, <<" ", " ", " ">>, <<" ">> \o John \o <<" ">>,
   [i \in 1..NameMaxLen |-> "a"], [i \in 1..(NameMaxLen + 1) |-> "a"]}

\* phone values handed to the schema: the valid number and its near misses
PhoneTexts ==
  {<<>>,
   <<"+", "1", "3", "0", "6", "2", "7", "7", "6", "1", "0", "3">>,
   <<"3", "0", "6", "2", "7", "7", "6", "1", "0", "3">>,
   <<"+", "2", "2", "3", "4", "5", "6", "7", "8", "9", "0">>,
   <<"+", "1", "-", "3", "0", "6", "-", "2", "7", "7", "-", "6", "1", "0", "3">>,
   <<"+", "1", " ", "3", "0", "6", " ", "2", "7", "7", " ", "6", "1", "0", "3">>,
   <<"+", "1", "0", "0", "0", "0", "0", "0", "0", "0", "0">>,
   <<"+", "1", "1", "0", "0", "0", "0", "0", "0", "0", "0">>,
   <<"+", "1", "0", "0", "6", "2", "7", "7", "6", "1", "0", "3">>,
   <<"+", "1", "1", "0", "6", "2", "7", "7", "6", "1", "0", "3">>,
   <<"+", "1", "3", "0", "6", "0", "7", "7", "6", "1", "0", "3">>,
   <<"+", "1", "3", "0", "6", "1", "7", "7", "6", "1", "0", "3">>,
   <<"+", "1", "3", "0", "6", "2", "7", "7", "6", "1", "0">>,
   <<"+", "1", "3", "0", "6", "2", "7", "7", "6", "1", "0", "3", "9">>,
   <<"+", "1", "3", "0", "6", "2", "7", "7", "6", "1", "0", "a">>,
   <<" ", "+", "1", "3", "0", "6", "2", "7", "7", "6", "1", "0", "3">>,
   <<"+", "2", "3", "0", "6", "2", "7", "7", "6", "1", "0", "3">>,
   <<"1", "1", "3", "0", "6", "2", "7", "7", "6", "1", "0", "3">>}

\* corporation numbers handed to the schema: 8, 9 and 10 digits, and nine
\* characters that are not all digits
CorporationNumberTexts ==
  {<<>>,
   <<"1", "2", "3", "4", "5", "6", "7", "8">>,
   <<"1", "2", "3", "4", "5", "6", "7", "8", "9">>,
   <<"1", "2", "3", "4", "5", "6", "7", "8", "9", "0">>,
   <<"1", "2", "3", "4", "5", "6", "7", "8", "a">>,
   <<"1", "2", "3", "4", " ", "6", "7", "8", "9">>,
   <<"a", "b", "c", "d", "e", "f", "g", "h", "i">>}

\* any value in any field, nothing validated yet
SchemaInit ==
  /\ formValues \in [firstName : NameTexts, lastName : {<<>>, Doe, <<" ">>},
                     phone : PhoneTexts,
                     corporationNumber : CorporationNumberTexts]
  /\ errors = NoSchemaErrors
  /\ formErrors = NoFormErrors
  /\ isValidating = FALSE
  /\ validationResult = Null
  /\ isSubmitting = FALSE
  /\ submitError = NullMessage
  /\ isSuccess = FALSE
  /\ calls = {}
  /\ started = 0
  /\ latest = None
  /\ lastCall = None
  /\ submits = {}
  /\ submitted = 0
  /\ finished = None

SchemaNext == \E name \in FormFields : trigger(name)

SchemaSpec == SchemaInit /\ [][SchemaNext]_vars

\* ------------------------------------------------- the submit path alone
\* first names a user can type: a plain one and a blank one
TypedFirstNameInputs == {John, <<" ">>}

\* filling the form and submitting it, with no blur and no reload
SubmitPathNext ==
  \/ \E v \in TypedFirstNameInputs : ChangeFirstName(v)
  \/ \E v \in LastNameInputs : ChangeLastName(v)
  \/ \E raw \in RawPhoneInputs : handlePhoneChange(raw)
  \/ \E raw \in RawCorporationNumberInputs : handleCorporationNumberChange(raw)
  \/ onSubmit
  \/ \E c \in calls : \E http \in VerifyResponses : VerifyResponse(c, http)
  \/ \E sub \in submits : \E http \in SubmitResponses : SubmitResponse(sub, http)

SubmitPathSpec == Init /\ [][SubmitPathNext]_vars

\* ------------------------------------------ the hook on its own (renderHook)
\* arguments a caller of the hook can pass to validateCorporationNumber
HookInputs == {<<>>, <<"1", "2", "3">>, NumA, NumB}

\* what a substituted apiService.validateCorporationNumber can do: resolve
\* with a verdict for the number or reject with any error object
MockApiOutcomes(corporationNumber) ==
  {[threw |-> FALSE,
    value |-> [corporationNumber |-> corporationNumber, valid |-> TRUE,
               message |-> Undefined]],
   [threw |-> TRUE,
    error |-> [message |-> "Invalid corporation number"]],
   [threw |-> TRUE, error |-> [message |-> ""]],
   [threw |-> TRUE, error |-> [message |-> Undefined]]}

\* result.current.validateCorporationNumber(corporationNumber)
HookValidate(corporationNumber) ==
  /\ StartValidation(corporationNumber, 0)
  /\ UNCHANGED <<formVars, submissionVars, submitVars>>

\* the substituted API call c settles
HookSettle(c, api) ==
  /\ c.owner = 0
  /\ SettleCall(c, api, None)

\* result.current.clearValidation()
HookClear ==
  /\ clearValidation
  /\ UNCHANGED <<formVars, submissionVars, submitVars>>

HookNext ==
  \/ \E n \in HookInputs : HookValidate(n)
  \/ \E c \in calls : \E api \in MockApiOutcomes(c.corporationNumber) :
       HookSettle(c, api)
  \/ HookClear

HookSpec == Init /\ [][HookNext]_vars

\* ================================================================== claims
\* the onSubmit invocations on record: those in progress and the last
\* finished one
Invocations == submits \cup (IF finished = None THEN {} ELSE {finished})

\* v is a verdict record (not "no value")
IsVerdict(v) == v \notin {None, Void, Null}

\* C1: last-call-wins.  When the latest-started verification call overlapped
\* an earlier one and every call has resolved, the held validationResult is
\* the result of the latest-started call.
C1_LastCallWins ==
  (latest # None /\ latest.overlapped /\ calls = {})
    => validationResult = latest.result

\* C2: at most one call of the submission endpoint is in flight.
C2_SingleSubmissionInFlight ==
  Cardinality({sub \in submits : sub.pc = "submitting"}) <= 1

\* the verdict that decides invocation sub: the one its fresh verification
\* returned, else the held record when it is for the submitted number
HasInvalidFreshVerdict(sub) == IsVerdict(sub.verdict) /\ ~sub.verdict.valid

HasInvalidMatchingRecord(sub) ==
  /\ sub.verdict = None
  /\ sub.held # Null
  /\ sub.held.corporationNumber = sub.data.corporationNumber
  /\ ~sub.held.valid

\* C3 as stated: an invocation with an invalid verdict has recorded the
\* verdict's message itself as the corporationNumber error and has not
\* called the submission endpoint.
C3_InvalidVerdictRecordsItsMessage ==
  \A sub \in Invocations :
    /\ HasInvalidFreshVerdict(sub) =>
         (sub.post = None /\ sub.recordedError = sub.verdict.message)
    /\ HasInvalidMatchingRecord(sub) =>
         (sub.post = None /\ sub.recordedError = sub.held.message)

\* C3 amended: an invocation with an invalid verdict has not called the
\* submission endpoint, has finished, and has recorded as corporationNumber
\* error the verdict's message, or 'Invalid corporation number' when the
\* verdict carries no message.
C3_InvalidVerdictBlocksSubmit ==
  \A sub \in Invocations :
    /\ HasInvalidFreshVerdict(sub) =>
         /\ sub.post = None
         /\ sub.pc = "done"
         /\ sub.recordedError =
              (IF sub.verdict.message \in {Undefined, ""}
               THEN "Invalid corporation number" ELSE sub.verdict.message)
    /\ HasInvalidMatchingRecord(sub) =>
         /\ sub.post = None
         /\ sub.pc = "done"
         /\ sub.recordedError =
              (IF sub.held.message \in {Undefined, ""}
               THEN "Invalid corporation number" ELSE sub.held.message)

\* C3, second case reached: the last finished invocation was blocked by a
\* held invalid record for the submitted number, whose message is shown.
C3_WitnessHeld ==
  /\ finished # None
  /\ HasInvalidMatchingRecord(finished)
  /\ finished.held.message = "Request failed with status code 400"
  /\ formErrors.corporationNumber = "Request failed with status code 400"

\* C3 witness: the last finished invocation was blocked by a fresh invalid
\* verdict that carries no message, and the fallback message is shown.
C3_WitnessFresh ==
  /\ finished # None
  /\ HasInvalidFreshVerdict(finished)
  /\ finished.verdict.message = Undefined
  /\ formErrors.corporationNumber = "Invalid corporation number"

\* C4: an invocation submitted with a non-empty number while the held record
\* was absent or for another number has made exactly one verification call,
\* which is in flight exactly while the invocation awaits it, and the
\* submission endpoint is called only once that call has returned.
C4_OneFreshVerificationBeforeSubmit ==
  \A sub \in Invocations :
    (/\ sub.data.corporationNumber # <<>>
     /\ (sub.held = Null
         \/ sub.held.corporationNumber # sub.data.corporationNumber))
    => /\ sub.verifyCalls = 1
       /\ Cardinality({c \in calls : c.owner = sub.id})
            = (IF sub.pc = "verifying" THEN 1 ELSE 0)
       /\ \A c \in calls : c.owner = sub.id =>
            c.corporationNumber = sub.data.corporationNumber
       /\ sub.post # None => IsVerdict(sub.verdict)
       /\ sub.pc = "verifying" => (sub.post = None /\ sub.verdict = None)

\* C4 witness: an invocation started with a stale record (for another
\* number) has verified afresh and then called the submission endpoint.
C4_Witness ==
  /\ finished # None
  /\ finished.held # Null
  /\ finished.held.corporationNumber # finished.data.corporationNumber
  /\ finished.verifyCalls = 1
  /\ IsVerdict(finished.verdict)
  /\ finished.post # None

\* C5: an invocation submitted with a number other than the held record's,
\* whose fresh verification returned valid, calls the submission endpoint
\* with the full input, whatever the stale record said.
C5_StaleRecordNeverDecides ==
  \A sub \in Invocations :
    (/\ sub.held # Null
     /\ sub.held.corporationNumber # sub.data.corporationNumber
     /\ IsVerdict(sub.verdict)
     /\ sub.verdict.valid)
    => sub.post = sub.data

\* C6: once isSuccess is true it stays true until the page is reloaded.
C6_SucceededIsTerminal ==
  [][(isSuccess /\ ~isSuccess') => Reload]_vars

\* C7: while a verification call is in flight, isValidating is true and the
\* submit button is disabled.
C7_ValidatingWhileInFlight ==
  calls # {} => (isValidating /\ ~SubmitButtonEnabled)

\* C8: when the API call of validateCorporationNumber fails, the hook
\* returns and stores {corporationNumber, valid: false, message: the
\* failure's message or 'Failed to validate corporation number'} and
\* isValidating is false right after.
C8_FailureBecomesVerdict ==
  [][\A c \in calls :
       (c \notin calls' /\ started' = started /\ lastCall'.api.threw)
       => LET m == lastCall'.api.error.message
              verdict == [corporationNumber |-> c.corporationNumber,
                          valid |-> FALSE,
                          message |-> IF m \in {Undefined, ""}
                                      THEN "Failed to validate corporation number"
                                      ELSE m]
          IN /\ Len(c.corporationNumber) = 9
             /\ lastCall'.returned = verdict
             /\ validationResult' = verdict
             /\ isValidating' = FALSE]_vars

\* C8 witness: a failure without message has been turned into the verdict
\* with the fallback message, and one with a message into that message.
C8_Witness ==
  /\ lastCall # None
  /\ lastCall.reachedApi
  /\ lastCall.api.threw
  /\ lastCall.api.error.message = Undefined
  /\ validationResult = [corporationNumber |-> lastCall.corporationNumber,
                         valid |-> FALSE,
                         message |-> "Failed to validate corporation number"]
  /\ ~isValidating

\* C9: on transport status 400, ApiService.validateCorporationNumber does
\* not throw and returns an invalid verdict for the requested number.
C9_BadRequestIsAVerdict ==
  (/\ lastCall # None
   /\ lastCall.reachedApi
   /\ ~lastCall.http.ok
   /\ lastCall.http.hasResponse
   /\ lastCall.http.status = 400)
  => /\ ~lastCall.api.threw
     /\ lastCall.api.value.corporationNumber = lastCall.corporationNumber
     /\ ~lastCall.api.value.valid

\* C10: a call of validateCorporationNumber with an empty value or one whose
\* length is not 9 starts no API call, leaves isValidating alone, sets the
\* held validationResult to null and returns no verdict.
C10_ShortNumberClearsWithoutCall ==
  [][\A n \in HookInputs :
       ((n = <<>> \/ Len(n) # 9) /\ HookValidate(n))
       => /\ calls' = calls
          /\ started' = started
          /\ isValidating' = isValidating
          /\ validationResult' = Null
          /\ lastCall'.returned = Void]_vars

\* C10 witness: a verdict had been obtained, and a later call with a short
\* value has cleared it while another API call is still in flight.
C10_Witness ==
  /\ lastCall # None
  /\ ~lastCall.reachedApi
  /\ lastCall.corporationNumber = <<"1", "2", "3">>
  /\ validationResult = Null
  /\ started = 2
  /\ Cardinality(calls) = 1
  /\ isValidating

\* C11: whenever a submission endpoint call resolves successfully, the state
\* that results has isSuccess true and submitError null, whatever errors
\* other attempts recorded, including attempts that were answered while this
\* one was pending.
C11_SuccessLeavesNoError ==
  [][\A sub \in submits :
       SubmitResponse(sub, [ok |-> TRUE])
         => isSuccess' /\ submitError' = NullMessage]_vars

\* C12: when a submission endpoint call fails with message M, submitForm
\* returns {success: false, error: M} (onSubmit shows M as the submit error),
\* submitError is M and isSuccess is false afterwards; and on both paths
\* isSubmitting is false once submitForm has resolved.
C12_FailureRecordsMessage ==
  [][\A sub \in submits : \A http \in SubmitResponses :
       SubmitResponse(sub, http)
         => /\ ~isSubmitting'
            /\ ~http.ok => /\ submitError' = http.message
                           /\ formErrors'.submit = http.message
                           /\ ~isSuccess']_vars

\* C13 (as stated): the message shown for the corporation-number field is
\* the schema error if there is one; otherwise the held record's message if
\* the held record is invalid; otherwise the ad hoc error recorded by submit.
C13_PrecedenceAsStated ==
  corporationNumberError =
    IF errors.corporationNumber # Undefined THEN errors.corporationNumber
    ELSE IF validationResult # Null /\ ~validationResult.valid
         THEN validationResult.message
         ELSE formErrors.corporationNumber

\* C13 (amended): the precedence is among non-empty messages: the schema
\* error if there is one; otherwise the message of the held record if that
\* record is invalid and carries a non-empty message; otherwise the ad hoc
\* error recorded by submit. With no schema error and a held record
\* {valid: false, message: M}, M non-empty, the shown message is M.
C13_PrecedenceAmongMessages ==
  /\ corporationNumberError =
       IF ~Falsy(errors.corporationNumber) THEN errors.corporationNumber
       ELSE IF /\ validationResult # Null
               /\ ~validationResult.valid
               /\ ~Falsy(validationResult.message)
            THEN validationResult.message
            ELSE formErrors.corporationNumber
  /\ ( /\ errors.corporationNumber = Undefined
       /\ validationResult # Null
       /\ ~validationResult.valid
       /\ ~Falsy(validationResult.message) )
     => corporationNumberError = validationResult.message

\* an invalid held record with a message is shown although submit recorded a
\* different ad hoc error
C13_Witness ==
  /\ errors.corporationNumber = Undefined
  /\ validationResult # Null
  /\ ~validationResult.valid
  /\ ~Falsy(validationResult.message)
  /\ ~Falsy(formErrors.corporationNumber)
  /\ formErrors.corporationNumber # validationResult.message
  /\ corporationNumberError = validationResult.message

\* C14: cleanPhoneInput is idempotent: cleaning a value that cleanPhoneInput
\* produced gives that value again.
C14_CleanIsIdempotent ==
  formValues.phone # <<>>
    => cleanPhoneInput(formValues.phone) = formValues.phone

\* C15: whichever branch produced it, the result of cleanPhoneInput has at
\* most 12 characters.
C15_CleanedAtMostTwelve ==
  Len(formValues.phone) <= PhoneMaxLen

\* an input with no digit at all, or the bare 1
DegenerateInput(raw) == Filter(raw, Digits) = <<>> \/ raw = <<"1">>

\* C16: cleanPhoneInput returns exactly +1 for every degenerate input: the
\* empty string, every input without a digit (letters, one or several +
\* characters, other symbols) and the bare 1.
C16_DegenerateGivesPrefix ==
  [][\A raw \in TypedPhoneInputs :
       (DegenerateInput(raw) /\ handlePhoneChange(raw))
         => formValues'.phone = <<"+", "1">>]_vars

\* raw spells a ten-digit national number whose first digit is 2..9: bare,
\* with a leading 1 or with a leading +1, spaces or dashes between digits
IsNationalSpelling(raw) ==
  LET plus == raw # <<>> /\ Head(raw) = "+"
      body == IF plus THEN Tail(raw) ELSE raw
      ds == Filter(body, Digits)
  IN /\ body # <<>>
     /\ \A i \in 1..Len(body) : body[i] \in Digits \cup {" ", "-"}
     /\ body[1] \in Digits /\ body[Len(body)] \in Digits
     /\ \/ ~plus /\ Len(ds) = 10 /\ ds[1] \in Digits \ {"0", "1"}
        \/ Len(ds) = 11 /\ ds[1] = "1" /\ ds[2] \in Digits \ {"0", "1"}

\* the ten digits of the national number that raw spells
NationalNumber(raw) ==
  LET ds == Filter(raw, Digits)
  IN SubSeq(ds, Len(ds) - 9, Len(ds))

\* C17: for every ten-digit national number d whose first digit is 2..9,
\* written bare, with a leading 1 or with a leading +1, with any spaces or
\* dashes between the digits, cleanPhoneInput returns +1 followed by d.
C17_NationalNumberNormalised ==
  [][\A raw \in TypedPhoneInputs :
       (IsNationalSpelling(raw) /\ handlePhoneChange(raw))
         => formValues'.phone = <<"+", "1">> \o NationalNumber(raw)]_vars

\* 1-306-277-6103 (or another spelling of it) has been typed and cleaned
C17_Witness ==
  /\ formValues.phone = <<"+", "1", "3", "0", "6", "2", "7", "7", "6", "1", "0", "3">>
  /\ errors.phone = Undefined

\* a name the schema is said to accept: something is left after trimming
\* and the value has at most 50 characters
NameAcceptable(v) == Trim(v) # <<>> /\ Len(v) <= NameMaxLen

\* C18: the schema accepts firstName, and lastName, exactly when the value
\* is non-empty after trimming surrounding whitespace and has at most 50
\* characters; a name made only of whitespace is rejected with the
\* 'required' error.
C18_NameAcceptedIffNonBlank ==
  [][/\ firstNameRule(formValues.firstName)
          <=> NameAcceptable(formValues.firstName)
     /\ lastNameRule(formValues.lastName)
          <=> NameAcceptable(formValues.lastName)
     /\ trigger("firstName")
          => /\ errors'.firstName = Undefined
                  <=> NameAcceptable(formValues.firstName)
             /\ (formValues.firstName # <<>> /\ Trim(formValues.firstName) = <<>>)
                  => errors'.firstName = "First name is required"
     /\ trigger("lastName")
          => /\ errors'.lastName = Undefined
                  <=> NameAcceptable(formValues.lastName)
             /\ (formValues.lastName # <<>> /\ Trim(formValues.lastName) = <<>>)
                  => errors'.lastName = "Last name is required"]_vars

\* +1, a digit 2..9, two digits, a digit 2..9, two digits, four digits
IsCanadianNumber(s) ==
  /\ Len(s) = 12
  /\ SubSeq(s, 1, 2) = <<"+", "1">>
  /\ \A i \in 3..12 : s[i] \in Digits
  /\ s[3] \notin {"0", "1"}
  /\ s[6] \notin {"0", "1"}

\* C19: the phone rule, in validatePhoneFormat and in the schema's phone
\* field, accepts exactly the 12-character strings made of +1, a digit from
\* 2 to 9, two digits, a digit from 2 to 9, two digits and four digits;
\* every other string is rejected.
C19_PhoneAcceptedIffCanadian ==
  [][/\ validatePhoneFormat(formValues.phone)
          <=> IsCanadianNumber(formValues.phone)
     /\ phoneRule(formValues.phone) <=> IsCanadianNumber(formValues.phone)
     /\ trigger("phone")
          => (errors'.phone = Undefined
                <=> IsCanadianNumber(formValues.phone))]_vars

\* a 12-character +1 number whose area code starts with 1 has been rejected
C19_Witness ==
  /\ formValues.phone = <<"+", "1", "1", "0", "6", "2", "7", "7", "6", "1", "0", "3">>
  /\ errors.phone # Undefined

\* C20: the schema's corporationNumber rule accepts exactly the strings of
\* exactly 9 characters that are all digits.
C20_CorporationNumberAcceptedIffNineDigits ==
  [][LET s == formValues.corporationNumber
         nineDigits == Len(s) = 9 /\ \A i \in 1..Len(s) : s[i] \in Digits
     IN /\ corporationNumberRule(s) <=> nineDigits
        /\ trigger("corporationNumber")
             => (errors'.corporationNumber = Undefined <=> nineDigits)]_vars

\* nine characters that are not all digits have been rejected
C20_Witness ==
  /\ Len(formValues.corporationNumber) = 9
  /\ errors.corporationNumber = "Corporation number must contain only digits"

\* C21: for every raw value entered in the corporation-number field, the
\* value stored is the raw value with its non-digit characters removed, cut
\* to its first 9 digits: from no state can a change event end with another
\* value stored.
C21_StoredIsFirstNineDigits ==
  \A raw \in RawCorporationNumberInputs :
    ~ENABLED (/\ handleCorporationNumberChange(raw)
              /\ formValues'.corporationNumber #
                   Substring0(Filter(raw, Digits), CorporationNumberLen))

\* C22: in no reachable state are isSuccess true and submitError non-null
\* together, whatever the interleaving of submits, resets and responses.
C22_NeverSuccessWithError ==
  ~(isSuccess /\ submitError # NullMessage)

\* C23: a blur of the corporation-number field whose value is not exactly 9
\* digits starts no verification call and leaves no record held: from such
\* a state no blur can end with a call started or a record (still) held.
C23_ShortBlurClearsRecord ==
  (FormRendered /\ ~corporationNumberRule(formValues.corporationNumber))
    => ~ENABLED (/\ handleCorporationNumberBlur
                 /\ ~(validationResult' = Null /\ calls' = calls))

\* C24: the submission endpoint is never called with a FormInput that fails
\* schema validation: the data of every call passes the four field rules.
C24_PostedInputPassesSchema ==
  \A sub \in Invocations :
    sub.post # None => onboardingFormSchema(sub.post)

====
